---- MODULE Spec2Model ----
(***************************************************************************)
(* A model of the USCIS Torch API client                                   *)
(* (src/uscis_streamlit_minimal/services/uscis_client.py): the cached      *)
(* OAuth token and its expiry check, lazy re-authentication, request       *)
(* dispatch with its error mapping, the case-status / FOIA wrappers, the   *)
(* batch loop and the connection self-test.                                *)
(*                                                                         *)
(* One action is one call of a public method by a single-threaded caller.  *)
(* The remote endpoints are the environment: every action draws the        *)
(* responses the OAuth endpoint and the resource endpoint give during that *)
(* call from the sets below.  `last` records what the call did (the HTTP   *)
(* requests it sent, the client state before it, what it returned or       *)
(* raised), so that statements about one call are state predicates.        *)
(***************************************************************************)
EXTENDS Integers, Sequences, FiniteSets, TLC

VARIABLES
    now,              \* the wall clock, datetime.now(), in seconds
    environment,      \* self.environment, fixed by __init__
    _endpoints,       \* self._endpoints: the URLs __init__ looked up
    json_error_base,  \* what response.json() raises on an undecodable body
    token_info,       \* self.token_info: None or a TokenInfo
    session_headers,  \* self._session.headers
    last,             \* the last call: its name, pre-state, HTTP log, outcome
    callers           \* two threads using the client at once: where each is

vars ==
    <<now, environment, _endpoints, json_error_base, token_info,
      session_headers, last, callers>>

---------------------------------------------------------------------------
(* Bounds of the model. *)

\* The clock runs from 0 to MaxTime.
MaxTime == 1

\* The longest list get_case_status_batch is called with.
MaxBatch == 3

---------------------------------------------------------------------------
(* Python values.  Every dynamically typed value carries its type as the    *)
(* name of its only field, so values of different types are different.     *)

None == [none |-> TRUE]

PyStr(s) == [str |-> s]

PyInt(n) == [int |-> n]

PyList(q) == [list |-> q]

PyDict(d) == [dict |-> d]

IsNone(v) == DOMAIN v = {"none"}

IsStr(v) == DOMAIN v = {"str"}

IsInt(v) == DOMAIN v = {"int"}

IsList(v) == DOMAIN v = {"list"}

IsDict(v) == DOMAIN v = {"dict"}

\* {} : the dict with no keys.
EmptyDict == PyDict(<<>>)

\* d.get(k, default) on a dict d.
DictGet(d, k, default) == IF k \in DOMAIN d.dict THEN d.dict[k] ELSE default

\* bool(v): None, "", 0, [] and {} are false.
Truthy(v) ==
    IF IsNone(v) THEN FALSE
    ELSE IF IsStr(v) THEN v.str # ""
    ELSE IF IsInt(v) THEN v.int # 0
    ELSE IF IsList(v) THEN Len(v.list) > 0
    ELSE DOMAIN v.dict # {}

\* f"{v}" for the values the client formats.
Format(v) ==
    IF IsStr(v) THEN v.str
    ELSE IF IsInt(v) THEN ToString(v.int)
    ELSE "None"

\* The digits of a decimal string, as int() reads them.
DigitValue(c) ==
    CASE c = "0" -> 0 [] c = "1" -> 1 [] c = "2" -> 2 [] c = "3" -> 3
      [] c = "4" -> 4 [] c = "5" -> 5 [] c = "6" -> 6 [] c = "7" -> 7
      [] c = "8" -> 8 [] c = "9" -> 9 [] OTHER -> -1

RECURSIVE ParseDigits(_, _)
ParseDigits(s, acc) ==
    IF Len(s) = 0 THEN acc
    ELSE LET d == DigitValue(SubSeq(s, 1, 1))
         IN  IF d < 0 \/ acc < 0 THEN -1
             ELSE ParseDigits(SubSeq(s, 2, Len(s)), 10 * acc + d)

\* int(v): [ok, value] or the exception int() raises.
PyIntOf(v) ==
    IF IsInt(v) THEN [ok |-> TRUE, value |-> v.int, error |-> ""]
    ELSE IF IsStr(v)
         THEN LET n == IF Len(v.str) = 0 THEN -1 ELSE ParseDigits(v.str, 0)
              IN  IF n >= 0
                  THEN [ok |-> TRUE, value |-> n, error |-> ""]
                  ELSE [ok |-> FALSE, value |-> 0, error |-> "ValueError"]
    ELSE [ok |-> FALSE, value |-> 0, error |-> "TypeError"]

\* x = <value>; <the rest, F, with x>: the value is computed once.
Bind(x, F(_)) == F(x)

---------------------------------------------------------------------------
(* The environments and their endpoints. *)

USCISEnvironment == {"SANDBOX", "PRODUCTION"}

ENDPOINTS ==
    [SANDBOX |->
        [base_url |-> "https://api-int.uscis.gov",
         oauth_url |-> "https://api-int.uscis.gov/oauth/accesstoken"],
     PRODUCTION |->
        [base_url |-> "https://api.uscis.gov",
         oauth_url |-> "https://api.uscis.gov/oauth/accesstoken"]]

SANDBOX_TEST_RECEIPTS == <<"EAC9999103402", "WAC9999103402", "LIN9999103402">>

\* A variant that reads the PRODUCTION entry whatever the client's own is.
base_url_production == ENDPOINTS["PRODUCTION"].base_url

base_url == _endpoints.base_url

oauth_url == _endpoints.oauth_url

\* The seconds is_expired subtracts from the expiry time.
ExpiryBuffer == 60

\* The lifetime authenticate() assumes when the response names none.
DefaultExpiresIn == 1799

\* The longest excerpt of a body that _make_request puts in a message.
ExcerptLength == 200

---------------------------------------------------------------------------
(* What the endpoints can answer.  A body is its text and what              *)
(* response.json() decodes it to (Invalid when it is not JSON).            *)

Invalid == [invalid |-> TRUE]

Body(text, parsed) == [text |-> text, parsed |-> parsed]

HttpResponse(status, body) == [status_code |-> status, body |-> body]

\* No response at all: requests raises a RequestException.
TransportFailure == [failure |-> "Connection refused"]

IsTransportFailure(resp) == DOMAIN resp = {"failure"}

EmptyBody == Body("", Invalid)

HtmlBody == Body("<html>Service Unavailable</html>", Invalid)

\* A body that is JSON, but an array and no object.
JsonArrayBody ==
    Body("[\"unavailable\"]", PyList(<<PyStr("unavailable")>>))

\* A body of 210 characters that is not JSON.
TenChars == "0123456789"

FiftyChars == TenChars \o TenChars \o TenChars \o TenChars \o TenChars

LongBody ==
    Body(FiftyChars \o FiftyChars \o FiftyChars \o FiftyChars \o TenChars,
         Invalid)

\* The OAuth endpoint's bodies for HTTP 200.
OAuthFull(tok, expires) ==
    Body("{access_token, token_type, expires_in, api_product_list_json: [..]}",
         PyDict([access_token |-> PyStr(tok), token_type |-> PyStr("Bearer"),
                 expires_in |-> expires,
                 api_product_list_json |-> PyList(<<PyStr("case-status")>>)]))

OAuthBare(tok, expires) ==
    Body("{access_token, expires_in}",
         PyDict([access_token |-> PyStr(tok), expires_in |-> expires]))

OAuthOneProduct(tok, expires) ==
    Body("{access_token, token_type, expires_in, api_product_list_json: str}",
         PyDict([access_token |-> PyStr(tok), token_type |-> PyStr("BearerToken"),
                 expires_in |-> expires,
                 api_product_list_json |-> PyStr("case-status")]))

OAuthNoLifetime(tok) ==
    Body("{access_token, token_type}",
         PyDict([access_token |-> PyStr(tok), token_type |-> PyStr("Bearer")]))

OAuthNoToken ==
    Body("{token_type, expires_in}",
         PyDict([token_type |-> PyStr("Bearer"), expires_in |-> PyInt(61)]))

\* Bodies authenticate() builds a token from.
OAuthGoodBodies ==
    { OAuthFull("tokA", PyInt(61)),
      OAuthBare("tokB", PyInt(62)),
      OAuthBare("tokB", PyInt(0)),
      OAuthOneProduct("tokB", PyInt(60)),
      OAuthNoLifetime("tokA"),
      OAuthFull("tokA", PyStr("61")) }

\* Bodies of a 200 answer that authenticate() cannot build a token from.
OAuthBadBodies ==
    { OAuthBare("tokA", PyStr("soon")), OAuthNoToken, HtmlBody }

OAuthErrorResponses ==
    { HttpResponse(401, Body("{error: invalid_client}",
                             PyDict([error |-> PyStr("invalid_client")]))),
      HttpResponse(400, Body("{message: bad request}",
                             PyDict([message |-> PyStr("bad request")]))),
      HttpResponse(500, EmptyBody),
      HttpResponse(503, HtmlBody),
      HttpResponse(403, JsonArrayBody) }

OAuthResponses ==
    { HttpResponse(200, b) : b \in OAuthGoodBodies \cup OAuthBadBodies }
        \cup OAuthErrorResponses \cup {TransportFailure}

\* The resource endpoints' answers.
CaseBodyEcho ==
    Body("{case_status: {receiptNumber, formType, ...}, message}",
         PyDict([case_status |->
                    PyDict([receiptNumber |-> PyStr("EAC9999103402"),
                            formType |-> PyStr("I-130"),
                            submittedDate |-> PyStr("2023-01-01"),
                            modifiedDate |-> PyStr("2023-02-01"),
                            current_case_status_text_en |->
                                PyStr("Case Approval Was Affirmed"),
                            current_case_status_desc_en |-> PyStr("Affirmed."),
                            hist_case_status |-> PyList(<<>>)]),
                 message |-> PyStr("Query was successful")]))

CaseBodyPlain ==
    Body("{case_status: {formType, current_case_status_text_en}}",
         PyDict([case_status |->
                    PyDict([formType |-> PyStr("I-485"),
                            current_case_status_text_en |->
                                PyStr("Case Was Received")])]))

FoiaBody ==
    Body("{requestNumber, status, createdDate}",
         PyDict([requestNumber |-> PyStr("FOIA-1"),
                 status |-> PyStr("RECEIVED"),
                 createdDate |-> PyStr("2024-01-01")]))

ErrorsBody(entries) ==
    Body("{errors: [..]}", PyDict([errors |-> PyList(entries)]))

InvalidReceiptError ==
    PyDict([message |-> PyStr("Invalid receipt"), code |-> PyStr("BAD_INPUT")])

TracedError ==
    PyDict([message |-> PyStr("Unprocessable"), code |-> PyStr("UNPROCESSABLE"),
            traceId |-> PyStr("trace-1")])

CodeOnlyError == PyDict([code |-> PyStr("NOT_FOUND")])

ResourceOkResponses ==
    { HttpResponse(200, CaseBodyEcho),
      HttpResponse(200, CaseBodyPlain),
      HttpResponse(200, FoiaBody),
      HttpResponse(200, HtmlBody) }

ResourceErrorResponses ==
    { HttpResponse(400, ErrorsBody(<<InvalidReceiptError>>)),
      HttpResponse(422, ErrorsBody(<<TracedError, InvalidReceiptError>>)),
      HttpResponse(404, ErrorsBody(<<CodeOnlyError>>)),
      HttpResponse(500, ErrorsBody(<<>>)),
      HttpResponse(429, Body("{message: rate limited}",
                             PyDict([message |-> PyStr("rate limited")]))),
      HttpResponse(503, EmptyBody),
      HttpResponse(401, EmptyBody),
      HttpResponse(404, Body("Not Found", Invalid)),
      HttpResponse(500, JsonArrayBody),
      HttpResponse(502, LongBody) }

ResourceResponses ==
    ResourceOkResponses \cup ResourceErrorResponses \cup {TransportFailure}

---------------------------------------------------------------------------
(* Exceptions and outcomes of a call. *)

\* USCISApiError(message, code, status, trace_id); str(e) is its message.
USCISApiError(message, code, status, trace_id) ==
    [type |-> "USCISApiError", message |-> message, code |-> code,
     status |-> status, trace_id |-> trace_id]

\* Any other Python exception (KeyError, ValueError, AttributeError, ...).
OtherError(type) == [type |-> type]

IsApiError(e) == e.type = "USCISApiError"

Returned(v) == [kind |-> "returned", value |-> v]

Raised(e) == [kind |-> "raised", exc |-> e]

IsRaised(out) == out.kind = "raised"

\* response.json() on a body that is not JSON raises JSONDecodeError: a
\* RequestException in requests >= 2.27, a plain ValueError before.
JsonDecodeCaught == json_error_base = "RequestException"

---------------------------------------------------------------------------
(* TokenInfo. *)

TokenInfo(access_token, token_type, expires_in, issued_at, api_products) ==
    [access_token |-> access_token, token_type |-> token_type,
     expires_in |-> expires_in, issued_at |-> issued_at,
     api_products |-> api_products]

expires_at(tok) == tok.issued_at + tok.expires_in

\* Variants of is_expired: the comparison made strict, and reversed.
is_expired_strict(tok, t) == t > expires_at(tok) - ExpiryBuffer

is_expired_reversed(tok, t) == t <= expires_at(tok) - ExpiryBuffer

is_expired(tok, t) == t >= expires_at(tok) - ExpiryBuffer

is_authenticated(tok, t) == tok # None /\ ~is_expired(tok, t)

---------------------------------------------------------------------------
(* The client.  A call works on a context: the cached token, the session   *)
(* headers and the log of HTTP requests the call has sent so far.  srv is  *)
(* what the endpoints answer during the call: srv.oauth[k] to the k-th     *)
(* OAuth request and srv.resource[k] to the k-th resource request (the     *)
(* last answer of a list to every later request).                          *)

Context(tok, headers, log) ==
    [token_info |-> tok, session_headers |-> headers, log |-> log]

OAuthCalls(log) == SelectSeq(log, LAMBDA r : r.kind = "oauth")

ResourceCalls(log) == SelectSeq(log, LAMBDA r : r.kind = "resource")

\* The answer to the (n + 1)-th request of a kind.
NextAnswer(answers, n) ==
    answers[IF n < Len(answers) THEN n + 1 ELSE Len(answers)]

OAuthReply(srv, log) == NextAnswer(srv.oauth, Len(OAuthCalls(log)))

ResourceReply(srv, log) == NextAnswer(srv.resource, Len(ResourceCalls(log)))

\* requests.post(self.oauth_url, ...): not sent through the session.
OAuthRequest(resp) ==
    [kind |-> "oauth", method |-> "POST", url |-> oauth_url, json |-> None,
     authorization |-> None, response |-> resp]

\* self._session.request(method, url, ...): carries the session's headers.
SessionRequest(headers, method, url, json_data, resp) ==
    [kind |-> "resource", method |-> method, url |-> url, json |-> json_data,
     authorization |-> IF "Authorization" \in DOMAIN headers
                       THEN PyStr(headers["Authorization"]) ELSE None,
     response |-> resp]

\* headers.update({k: v})
HeadersUpdate(headers, k, v) == (k :> v) @@ headers

InitialHeaders ==
    ("Content-Type" :> "application/json") @@ ("Accept" :> "application/json")

\* The exception a failed response.json() ends in, inside a try block whose
\* handler turns RequestException into USCISApiError(prefix + str(e)).
JsonDecodeError(prefix) ==
    IF JsonDecodeCaught
    THEN USCISApiError(prefix \o "Expecting value", None, None, None)
    ELSE OtherError("ValueError")

\* A variant that reports a transport failure as a 503 of the service.
TransportError_as_status(prefix, resp) ==
    USCISApiError(prefix \o resp.failure, PyStr("HTTP_503"), PyInt(503), None)

\* except requests.RequestException as e: the USCISApiError that wraps a
\* transport failure; it has neither code nor status.
TransportError(prefix, resp) ==
    USCISApiError(prefix \o resp.failure, None, None, None)

\* A variant of the failure path that forgets the session it had.
AuthFailure_clears(ctx, log1, e) ==
    [ctx |-> Context(None, InitialHeaders, log1), out |-> Raised(e)]

\* The raise statements of authenticate(): nothing of the client changes.
AuthFailure(ctx, log1, e) ==
    [ctx |-> [ctx EXCEPT !.log = log1], out |-> Raised(e)]

\* A variant of the end of authenticate() that writes the header from the
\* response's token_type instead of the literal "Bearer".
AuthSuccess_token_type(ctx, log1, tok) ==
    [ctx |-> Context(tok,
                     HeadersUpdate(ctx.session_headers, "Authorization",
                                   Format(tok.token_type) \o " "
                                       \o Format(tok.access_token)),
                     log1),
     out |-> Returned(tok)]

\* A variant of the end of authenticate() that leaves an Authorization
\* header alone once the session has one.
AuthSuccess_keeps_header(ctx, log1, tok) ==
    [ctx |-> Context(tok,
                     IF "Authorization" \in DOMAIN ctx.session_headers
                     THEN ctx.session_headers
                     ELSE HeadersUpdate(ctx.session_headers, "Authorization",
                                        "Bearer " \o Format(tok.access_token)),
                     log1),
     out |-> Returned(tok)]

\* The end of authenticate(): cache the token, set the bearer header,
\* return the token.
AuthSuccess(ctx, log1, tok) ==
    [ctx |-> Context(tok,
                     HeadersUpdate(ctx.session_headers, "Authorization",
                                   "Bearer " \o Format(tok.access_token)),
                     log1),
     out |-> Returned(tok)]

\* authenticate() once the OAuth endpoint has answered resp.
AuthenticateOn(ctx, resp, log1, t) ==
    LET prefix == "Network error during authentication: "
    IN  IF IsTransportFailure(resp)
        THEN AuthFailure(ctx, log1, TransportError(prefix, resp))
        ELSE IF resp.status_code # 200
        THEN IF resp.body.text # "" /\ resp.body.parsed = Invalid
             THEN AuthFailure(ctx, log1, JsonDecodeError(prefix))
             ELSE LET error_data == IF resp.body.text # ""
                                    THEN resp.body.parsed ELSE EmptyDict
                  IN  IF ~IsDict(error_data)
                      THEN AuthFailure(ctx, log1, OtherError("AttributeError"))
                      ELSE AuthFailure(ctx, log1,
                               USCISApiError(
                                   "Authentication failed: "
                                       \o ToString(resp.status_code),
                                   DictGet(error_data, "error",
                                           PyStr("AUTH_ERROR")),
                                   PyInt(resp.status_code), None))
        ELSE IF resp.body.parsed = Invalid
        THEN AuthFailure(ctx, log1, JsonDecodeError(prefix))
        ELSE LET data == resp.body.parsed
             IN  IF ~IsDict(data)
                 THEN AuthFailure(ctx, log1, OtherError("AttributeError"))
                 ELSE
                 LET listed == DictGet(data, "api_product_list_json",
                                       PyList(<<>>))
                     api_products == IF IsStr(listed) THEN PyList(<<listed>>)
                                     ELSE listed
                     expires == PyIntOf(DictGet(data, "expires_in",
                                                PyInt(DefaultExpiresIn)))
                 IN  IF "access_token" \notin DOMAIN data.dict
                     THEN AuthFailure(ctx, log1, OtherError("KeyError"))
                     ELSE IF ~expires.ok
                     THEN AuthFailure(ctx, log1, OtherError(expires.error))
                     ELSE AuthSuccess(ctx, log1,
                              TokenInfo(data.dict["access_token"],
                                        DictGet(data, "token_type",
                                                PyStr("Bearer")),
                                        expires.value, t, api_products))

authenticate(ctx, srv, t) ==
    Bind(OAuthReply(srv, ctx.log), LAMBDA resp :
        AuthenticateOn(ctx, resp, Append(ctx.log, OAuthRequest(resp)), t))

\* A variant that authenticates only when no token is cached.
NeedsAuthentication_absent(tok, t) == tok = None

\* A variant that authenticates before every request.
NeedsAuthentication_always(tok, t) == tok = None \/ tok # None

\* if not self.is_authenticated: self.authenticate()
NeedsAuthentication(tok, t) == ~is_authenticated(tok, t)

_ensure_authenticated(ctx, srv, t) ==
    IF NeedsAuthentication(ctx.token_info, t)
    THEN Bind(authenticate(ctx, srv, t), LAMBDA a :
             [ctx |-> a.ctx,
              out |-> IF IsRaised(a.out) THEN a.out ELSE Returned(None)])
    ELSE [ctx |-> ctx, out |-> Returned(None)]

\* error_body[:200] if error_body else <placeholder>
Excerpt(text, placeholder) ==
    IF text = "" THEN placeholder
    ELSE SubSeq(text, 1, IF Len(text) < ExcerptLength THEN Len(text)
                         ELSE ExcerptLength)

\* The message _make_request builds when the first error names none.
DefaultErrorMessage(status, url, error_body) ==
    IF status = 503
    THEN "USCIS API unavailable (503). URL: " \o url \o ". Response: "
             \o Excerpt(error_body, "empty")
    ELSE IF status = 401
    THEN "Authentication failed - check your credentials"
    ELSE IF status = 404
    THEN "Endpoint not found: " \o url
    ELSE "API error " \o ToString(status) \o ": "
             \o Excerpt(error_body, "no response body")

\* A variant of the error branch that never reads the body.
ErrorFromResponse_generic(resp, url) ==
    USCISApiError(DefaultErrorMessage(resp.status_code, url, resp.body.text),
                  PyStr("HTTP_" \o ToString(resp.status_code)),
                  PyInt(resp.status_code), None)

\* The branch of _make_request for status_code >= 400.
ErrorFromResponse(resp, url) ==
    LET error_data == IF resp.body.text # "" /\ resp.body.parsed # Invalid
                      THEN resp.body.parsed ELSE EmptyDict
    IN  IF ~IsDict(error_data) THEN OtherError("AttributeError")
        ELSE
        LET errors == DictGet(error_data, "errors", PyList(<<EmptyDict>>))
        IN  IF Truthy(errors) /\ ~IsList(errors)
            THEN OtherError(IF IsStr(errors) THEN "AttributeError"
                            ELSE IF IsDict(errors) THEN "KeyError"
                            ELSE "TypeError")
            ELSE
            LET first_error == IF Truthy(errors) THEN errors.list[1]
                               ELSE EmptyDict
            IN  IF ~IsDict(first_error) THEN OtherError("AttributeError")
                ELSE
                LET named == DictGet(first_error, "message", PyStr(""))
                    error_msg ==
                        IF Truthy(named) THEN Format(named)
                        ELSE DefaultErrorMessage(resp.status_code, url,
                                                 resp.body.text)
                IN  USCISApiError(
                        error_msg,
                        DictGet(first_error, "code",
                                PyStr("HTTP_" \o ToString(resp.status_code))),
                        PyInt(resp.status_code),
                        DictGet(first_error, "traceId", None))

\* _make_request from the request on: ctx is the context
\* _ensure_authenticated left, resp the endpoint's answer.
Dispatch(ctx, resp, t, method, url, json_data) ==
    LET sent == [ctx EXCEPT !.log =
                    Append(@, SessionRequest(ctx.session_headers, method, url,
                                             json_data, resp))]
    IN  IF IsTransportFailure(resp)
        THEN [ctx |-> sent,
              out |-> Raised(TransportError("Network error: ", resp))]
        ELSE IF resp.status_code >= 400
        THEN [ctx |-> sent, out |-> Raised(ErrorFromResponse(resp, url))]
        ELSE IF resp.body.parsed = Invalid
        THEN [ctx |-> sent, out |-> Raised(JsonDecodeError("Network error: "))]
        ELSE [ctx |-> sent, out |-> Returned(resp.body.parsed)]

\* A variant that sends the request a second time when the first attempt
\* raised.
_make_request_resend(ctx, srv, t, method, endpoint, json_data) ==
    Bind(_ensure_authenticated(ctx, srv, t), LAMBDA a :
        IF IsRaised(a.out) THEN a
        ELSE Bind(Dispatch(a.ctx, ResourceReply(srv, a.ctx.log), t, method,
                           base_url \o endpoint, json_data), LAMBDA d :
                 IF IsRaised(d.out)
                 THEN Dispatch(d.ctx, ResourceReply(srv, d.ctx.log), t, method,
                               base_url \o endpoint, json_data)
                 ELSE d))

_make_request(ctx, srv, t, method, endpoint, json_data) ==
    Bind(_ensure_authenticated(ctx, srv, t), LAMBDA a :
        IF IsRaised(a.out) THEN a
        ELSE Dispatch(a.ctx, ResourceReply(srv, a.ctx.log), t, method,
                      base_url \o endpoint, json_data))

---------------------------------------------------------------------------
(* The endpoint wrappers. *)

CaseStatus(receipt_number, form_type, submitted_date, modified_date, status_text_en, status_desc_en, status_text_es, status_desc_es, history, raw_response) ==
    [receipt_number |-> receipt_number, form_type |-> form_type,
     submitted_date |-> submitted_date, modified_date |-> modified_date,
     status_text_en |-> status_text_en, status_desc_en |-> status_desc_en,
     status_text_es |-> status_text_es, status_desc_es |-> status_desc_es,
     history |-> history, raw_response |-> raw_response]

FOIARequest(request_number, status, created_date, raw_response) ==
    [request_number |-> request_number, status |-> status,
     created_date |-> created_date, raw_response |-> raw_response]

\* get_case_status on the decoded body data.
CaseStatusFrom(data, receipt_number) ==
    IF ~IsDict(data) THEN Raised(OtherError("AttributeError"))
    ELSE
    LET case_data == DictGet(data, "case_status", EmptyDict)
    IN  IF ~IsDict(case_data) THEN Raised(OtherError("AttributeError"))
        ELSE Returned(CaseStatus(
                 DictGet(case_data, "receiptNumber", PyStr(receipt_number)),
                 DictGet(case_data, "formType", PyStr("")),
                 DictGet(case_data, "submittedDate", None),
                 DictGet(case_data, "modifiedDate", None),
                 DictGet(case_data, "current_case_status_text_en", PyStr("")),
                 DictGet(case_data, "current_case_status_desc_en", PyStr("")),
                 DictGet(case_data, "current_case_status_text_es", None),
                 DictGet(case_data, "current_case_status_desc_es", None),
                 DictGet(case_data, "hist_case_status", None),
                 data))

get_case_status(ctx, srv, t, receipt_number) ==
    Bind(_make_request(ctx, srv, t, "GET", "/case-status/" \o receipt_number,
                       None),
         LAMBDA r :
             IF IsRaised(r.out) THEN r
             ELSE [ctx |-> r.ctx,
                   out |-> CaseStatusFrom(r.out.value, receipt_number)])

\* What one pass of the loop of get_case_status_batch does with a lookup
\* that raised USCISApiError e: errors[receipt] = str(e), and go on.
BatchCatch(results, errors, receipt, e) ==
    [results |-> results, errors |-> (receipt :> e.message) @@ errors]

\* The loop of get_case_status_batch from the i-th receipt on.  results and
\* errors are the two local dicts; a lookup that raises anything but
\* USCISApiError ends the loop and the call.
RECURSIVE BatchLoop(_, _, _, _, _, _, _)
BatchLoop(ctx, srv, t, receipt_numbers, i, results, errors) ==
    IF i > Len(receipt_numbers)
    THEN [ctx |-> ctx, results |-> results, errors |-> errors,
          escaped |-> None]
    ELSE Bind(get_case_status(ctx, srv, t, receipt_numbers[i]), LAMBDA g :
             IF ~IsRaised(g.out)
             THEN BatchLoop(g.ctx, srv, t, receipt_numbers, i + 1,
                            (receipt_numbers[i] :> g.out.value) @@ results,
                            errors)
             ELSE IF IsApiError(g.out.exc)
             THEN Bind(BatchCatch(results, errors, receipt_numbers[i],
                                  g.out.exc),
                       LAMBDA c :
                           BatchLoop(g.ctx, srv, t, receipt_numbers, i + 1,
                                     c.results, c.errors))
             ELSE [ctx |-> g.ctx, results |-> results, errors |-> errors,
                   escaped |-> g.out.exc])

\* A variant that hands back both local dicts.
BatchReturn_both(results, errors) ==
    PyDict([results |-> PyDict(results), errors |-> PyDict(errors)])

\* What get_case_status_batch hands back from its two local dicts.
BatchReturn(results, errors) == PyDict(results)

get_case_status_batch(ctx, srv, t, receipt_numbers) ==
    Bind(BatchLoop(ctx, srv, t, receipt_numbers, 1, <<>>, <<>>), LAMBDA l :
        [ctx |-> l.ctx,
         out |-> IF l.escaped # None THEN Raised(l.escaped)
                 ELSE Returned(BatchReturn(l.results, l.errors)),
         errors |-> PyDict(l.errors)])

\* The payload of create_foia_request.
FoiaPayload(a) ==
    LET required ==
            [subjectFirstName |-> PyStr(a.subject_first_name),
             subjectLastName |-> PyStr(a.subject_last_name),
             subjectDateOfBirth |-> PyStr(a.subject_dob),
             subjectCountryOfBirth |-> PyStr(a.subject_country_of_birth),
             requestType |-> PyStr(a.request_type)]
        with_a == IF Truthy(a.a_number)
                  THEN ("alienNumber" :> a.a_number) @@ required
                  ELSE required
        with_email == IF Truthy(a.requester_email)
                      THEN ("requesterEmail" :> a.requester_email) @@ with_a
                      ELSE with_a
    IN  PyDict(a.additional_fields @@ with_email)

create_foia_request(ctx, srv, t, a) ==
    Bind(_make_request(ctx, srv, t, "POST", "/foia/request", FoiaPayload(a)),
         LAMBDA r :
             IF IsRaised(r.out) THEN r
             ELSE IF ~IsDict(r.out.value)
             THEN [ctx |-> r.ctx,
                   out |-> Raised(OtherError("AttributeError"))]
             ELSE [ctx |-> r.ctx,
                   out |-> Returned(FOIARequest(
                               DictGet(r.out.value, "requestNumber", None),
                               DictGet(r.out.value, "status", None),
                               DictGet(r.out.value, "createdDate", None),
                               r.out.value))])

get_foia_status(ctx, srv, t, request_number) ==
    Bind(_make_request(ctx, srv, t, "GET", "/foia/status/" \o request_number,
                       None),
         LAMBDA r :
             IF IsRaised(r.out) THEN r
             ELSE IF ~IsDict(r.out.value)
             THEN [ctx |-> r.ctx,
                   out |-> Raised(OtherError("AttributeError"))]
             ELSE [ctx |-> r.ctx,
                   out |-> Returned(FOIARequest(
                               PyStr(request_number),
                               DictGet(r.out.value, "status", None),
                               None,
                               r.out.value))])

---------------------------------------------------------------------------
(* Diagnostics. *)

\* USCISEnvironment.<name>.value
EnvironmentValue(env) == IF env = "SANDBOX" THEN "sandbox" ELSE "production"

\* datetime.isoformat(): the text of a time.
IsoFormat(t) == "T+" \o ToString(t)

Max(a, b) == IF a >= b THEN a ELSE b

\* A variant that reports the remaining seconds without the floor at zero.
get_token_info_unfloored(tok, t) ==
    IF tok = None THEN [authenticated |-> FALSE]
    ELSE [authenticated |-> TRUE,
          token_type |-> tok.token_type,
          expires_in |-> tok.expires_in,
          issued_at |-> IsoFormat(tok.issued_at),
          expires_at |-> IsoFormat(expires_at(tok)),
          is_expired |-> is_expired(tok, t),
          seconds_remaining |-> expires_at(tok) - t,
          api_products |-> tok.api_products,
          environment |-> EnvironmentValue(environment)]

get_token_info(tok, t) ==
    IF tok = None THEN [authenticated |-> FALSE]
    ELSE [authenticated |-> TRUE,
          token_type |-> tok.token_type,
          expires_in |-> tok.expires_in,
          issued_at |-> IsoFormat(tok.issued_at),
          expires_at |-> IsoFormat(expires_at(tok)),
          is_expired |-> is_expired(tok, t),
          seconds_remaining |-> Max(0, expires_at(tok) - t),
          api_products |-> tok.api_products,
          environment |-> EnvironmentValue(environment)]

get_debug_info(tok, t) ==
    [environment |-> EnvironmentValue(environment),
     base_url |-> base_url,
     oauth_url |-> oauth_url,
     case_status_endpoint |-> base_url \o "/case-status/{receipt_number}",
     foia_request_endpoint |-> base_url \o "/foia/request",
     foia_status_endpoint |-> base_url \o "/foia/status/{request_number}",
     is_authenticated |-> is_authenticated(tok, t),
     token_info |-> IF tok # None THEN get_token_info(tok, t) ELSE None,
     sandbox_test_receipts |-> SANDBOX_TEST_RECEIPTS]

\* The except branch of a sub-test of test_connection.
SubTestFailure(e) == [success |-> FALSE, error |-> e.message, code |-> e.code]

\* A variant that runs the sub-test in every environment.
RunsCaseStatusTest_always(env) == env \in USCISEnvironment

\* Whether test_connection goes on to the case-status sub-test.
RunsCaseStatusTest(env) == env = "SANDBOX"

\* The results test_connection starts from.
TestResults(t) ==
    [environment |-> EnvironmentValue(environment),
     timestamp |-> IsoFormat(t),
     authentication |-> [success |-> FALSE],
     case_status_api |-> [success |-> FALSE]]

\* The case-status sub-test of test_connection; authed holds the results of
\* the authentication sub-test.
CaseStatusTest(ctx, srv, t, authed) ==
    Bind(get_case_status(ctx, srv, t, SANDBOX_TEST_RECEIPTS[1]), LAMBDA g :
        IF ~IsRaised(g.out)
        THEN [ctx |-> g.ctx,
              out |-> Returned([authed EXCEPT !.case_status_api =
                          [success |-> TRUE,
                           test_receipt |-> SANDBOX_TEST_RECEIPTS[1],
                           form_type |-> g.out.value.form_type,
                           status |-> g.out.value.status_text_en]])]
        ELSE IF IsApiError(g.out.exc)
        THEN [ctx |-> g.ctx,
              out |-> Returned([authed EXCEPT !.case_status_api =
                          [success |-> FALSE,
                           test_receipt |-> SANDBOX_TEST_RECEIPTS[1],
                           error |-> g.out.exc.message,
                           code |-> g.out.exc.code]])]
        ELSE g)

\* test_connection after an authenticate() that raised e.
AuthTestFailure(ctx, e, t) ==
    IF IsApiError(e)
    THEN [ctx |-> ctx,
          out |-> Returned([TestResults(t) EXCEPT !.authentication =
                               SubTestFailure(e)])]
    ELSE [ctx |-> ctx, out |-> Raised(e)]

test_connection(ctx, srv, t) ==
    Bind(authenticate(ctx, srv, t), LAMBDA a :
        IF IsRaised(a.out) THEN AuthTestFailure(a.ctx, a.out.exc, t)
        ELSE Bind([TestResults(t) EXCEPT !.authentication =
                      [success |-> TRUE,
                       token_info |-> get_token_info(a.ctx.token_info, t)]],
                  LAMBDA authed :
                      IF ~RunsCaseStatusTest(environment)
                      THEN [ctx |-> a.ctx, out |-> Returned(authed)]
                      ELSE CaseStatusTest(a.ctx, srv, t, authed)))

---------------------------------------------------------------------------
(* The calls a caller makes. *)

Receipts == {"OK1", "BAD1", "OK2"}

RequestNumbers == {"FOIA-1"}

\* Argument lists of create_foia_request.
FoiaArguments ==
    { [subject_first_name |-> "Ana", subject_last_name |-> "Diaz",
       subject_dob |-> "01-02-1990", subject_country_of_birth |-> "Mexico",
       a_number |-> n, requester_email |-> m, request_type |-> "ALIEN_FILE",
       additional_fields |-> <<>>]
      : n \in {None, PyStr("A123456789")}, m \in {None} }

\* The lists get_case_status_batch is called with.
RECURSIVE SeqsUpTo(_, _)
SeqsUpTo(S, n) ==
    IF n = 0 THEN {<<>>}
    ELSE LET shorter == SeqsUpTo(S, n - 1)
         IN  shorter \cup {Append(q, x) : q \in shorter, x \in S}

BatchInputs == SeqsUpTo(Receipts, MaxBatch)

\* What the endpoints answer during a batch.
BatchOAuthResponses ==
    { HttpResponse(200, OAuthFull("tokA", PyInt(61))),
      HttpResponse(401, Body("{error: invalid_client}",
                             PyDict([error |-> PyStr("invalid_client")]))),
      HttpResponse(200, OAuthNoToken) }

BatchResourceResponses ==
    { HttpResponse(200, CaseBodyPlain),
      HttpResponse(400, ErrorsBody(<<InvalidReceiptError>>)) }

\* The answer of an endpoint that the call never asks.
Unused == TransportFailure

\* The endpoints during a call: their answers, in the order of the requests.
Server(oauth, resource) == [oauth |-> oauth, resource |-> resource]

Start == Context(token_info, session_headers, <<>>)

\* Whether _ensure_authenticated lets the request through, from context ctx
\* with the OAuth endpoint answering as in oauth.
AuthPasses(ctx, oauth) ==
    ~IsRaised(_ensure_authenticated(ctx, Server(oauth, <<Unused>>), now).out)

\* The answers a call can tell apart: an OAuth answer counts only when the
\* call authenticates, a resource answer only when the request is sent.
OAuthChoices(ctx, S) ==
    IF NeedsAuthentication(ctx.token_info, now) THEN S ELSE {Unused}

ResourceChoices(ctx, oauth, S) ==
    IF AuthPasses(ctx, oauth) THEN S ELSE {Unused}

\* The answers to the n lookups of a batch.
BatchChoices(ctx, oauth, S, n) ==
    IF n > 0 /\ AuthPasses(ctx, oauth) THEN [1..n -> S] ELSE {<<Unused>>}

\* The context in which test_connection runs its case-status sub-test when
\* o1 answers its authenticate(); NoContext when it runs none.
NoContext == Context(None, <<>>, <<>>)

SubTestContext(o1) ==
    IF ~RunsCaseStatusTest(environment) THEN NoContext
    ELSE Bind(authenticate(Start, Server(<<o1>>, <<Unused>>), now),
              LAMBDA a : IF IsRaised(a.out) THEN NoContext ELSE a.ctx)

Snapshot == [token_info |-> token_info, session_headers |-> session_headers]

\* No call is recorded: the caller is between two calls.
NoCall ==
    [op |-> "none", args |-> None, at |-> 0,
     pre |-> [token_info |-> None, session_headers |-> InitialHeaders],
     log |-> <<>>, out |-> Returned(None), errors |-> EmptyDict]

\* The single-threaded caller makes one call at a time.
Idle == last.op = "none"

\* The call is over: the client keeps what the call left in its context.
Finish(op, args, res, errors) ==
    /\ token_info' = res.ctx.token_info
    /\ session_headers' = res.ctx.session_headers
    /\ last' = [op |-> op, args |-> args, at |-> now, pre |-> Snapshot,
                log |-> res.ctx.log, out |-> res.out, errors |-> errors]
    /\ UNCHANGED <<now, environment, _endpoints, json_error_base, callers>>

\* The threads that may use the client at the same time.
Callers == {"caller1", "caller2"}

\* A thread that is not inside a call of the client.
IdleCaller ==
    [pc |-> "idle", observed |-> FALSE, seen |-> None, tok |-> None,
     bearer |-> "",
     log |-> <<>>, out |-> Returned(None)]

\* __init__: no token, the session's two default headers.
Init ==
    /\ now = 0
    /\ environment \in USCISEnvironment
    /\ _endpoints = ENDPOINTS[environment]
    /\ json_error_base \in {"RequestException", "ValueError"}
    /\ token_info = None
    /\ session_headers = InitialHeaders
    /\ last = NoCall
    /\ callers = [c \in Callers |-> IdleCaller]

\* A second passes between two calls.
Tick ==
    /\ Idle
    /\ now < MaxTime
    /\ now' = now + 1
    /\ UNCHANGED <<environment, _endpoints, json_error_base, token_info,
                   session_headers, last, callers>>

\* The caller takes what the call returned or raised and goes on.
Resume ==
    /\ ~Idle
    /\ last' = NoCall
    /\ UNCHANGED <<now, environment, _endpoints, json_error_base, token_info,
                   session_headers, callers>>

Authenticate ==
    /\ Idle
    /\ \E o \in OAuthResponses :
           Finish("authenticate", None,
                  authenticate(Start, Server(<<o>>, <<Unused>>), now),
                  EmptyDict)

GetCaseStatus ==
    /\ Idle
    /\ \E receipt \in Receipts :
           \E o \in OAuthChoices(Start, OAuthResponses) :
               \E r \in ResourceChoices(Start, <<o>>, ResourceResponses) :
                   Finish("get_case_status", PyStr(receipt),
                          get_case_status(Start, Server(<<o>>, <<r>>), now,
                                          receipt),
                          EmptyDict)

GetCaseStatusBatch ==
    /\ Idle
    /\ \E receipt_numbers \in BatchInputs :
           \E o \in IF receipt_numbers = <<>> THEN {Unused}
                    ELSE OAuthChoices(Start, BatchOAuthResponses) :
               \E rs \in BatchChoices(Start, <<o>>, BatchResourceResponses,
                                   Len(receipt_numbers)) :
                   Bind(get_case_status_batch(
                            Start, Server(<<o>>, rs), now, receipt_numbers),
                        LAMBDA res :
                            Finish("get_case_status_batch",
                                   PyList([i \in 1..Len(receipt_numbers) |->
                                              PyStr(receipt_numbers[i])]),
                                   res, res.errors))

CreateFoiaRequest ==
    /\ Idle
    /\ \E a \in FoiaArguments :
           \E o \in OAuthChoices(Start, OAuthResponses) :
               \E r \in ResourceChoices(Start, <<o>>, ResourceResponses) :
                   Finish("create_foia_request", PyDict(a),
                          create_foia_request(Start, Server(<<o>>, <<r>>), now,
                                              a),
                          EmptyDict)

GetFoiaStatus ==
    /\ Idle
    /\ \E n \in RequestNumbers :
           \E o \in OAuthChoices(Start, OAuthResponses) :
               \E r \in ResourceChoices(Start, <<o>>, ResourceResponses) :
                   Finish("get_foia_status", PyStr(n),
                          get_foia_status(Start, Server(<<o>>, <<r>>), now, n),
                          EmptyDict)

\* o1 answers test_connection's own authenticate(), o2 the one its
\* case-status lookup makes when the new token is already expired.
TestConnection ==
    /\ Idle
    /\ \E o1 \in OAuthResponses :
           \E o2 \in IF SubTestContext(o1) = NoContext THEN {o1}
                     ELSE OAuthChoices(SubTestContext(o1), OAuthResponses) :
               \E r \in IF SubTestContext(o1) = NoContext THEN {Unused}
                        ELSE ResourceChoices(SubTestContext(o1), <<o1, o2>>,
                                             ResourceResponses) :
                   Finish("test_connection", None,
                          test_connection(
                              Start,
                              Server(<<o1, o2>>, <<r>>), now),
                          EmptyDict)

GetTokenInfo ==
    /\ Idle
    /\ Finish("get_token_info", None,
              [ctx |-> Start, out |-> Returned(get_token_info(token_info, now))],
              EmptyDict)

GetDebugInfo ==
    /\ Idle
    /\ Finish("get_debug_info", None,
              [ctx |-> Start, out |-> Returned(get_debug_info(token_info, now))],
              EmptyDict)

Next ==
    \/ Tick
    \/ Resume
    \/ Authenticate
    \/ GetCaseStatus
    \/ GetCaseStatusBatch
    \/ CreateFoiaRequest
    \/ GetFoiaStatus
    \/ TestConnection
    \/ GetTokenInfo
    \/ GetDebugInfo

Spec == Init /\ [][Next]_vars

---------------------------------------------------------------------------
(* Two threads on one client.  Each runs get_case_status; the steps are    *)
(* the reads and writes of what the threads share, self.token_info and     *)
(* self._session.headers, in the order of the code.  Nothing in the code   *)
(* locks them, so the steps of the two threads interleave freely.          *)

\* What the endpoints answer to the two threads.
ConcurrentOAuthResponses ==
    { HttpResponse(200, OAuthFull("tokA", PyInt(61))),
      HttpResponse(200, OAuthBare("tokB", PyInt(62))),
      HttpResponse(401, Body("{error: invalid_client}",
                             PyDict([error |-> PyStr("invalid_client")]))) }

ConcurrentResourceResponses ==
    { HttpResponse(200, CaseBodyPlain), HttpResponse(401, EmptyBody) }

\* The receipt both threads look up.
ConcurrentReceipt == "OK1"

\* A variant of authenticate() that looks at the cached token again and
\* sends nothing when another thread has refreshed it meanwhile.
PostsOnEntry_rechecks(tok, t) == NeedsAuthentication(tok, t)

\* authenticate() sends the OAuth request whatever self.token_info holds
\* by now: it neither locks nor looks at the token.
PostsOnEntry(tok, t) == TRUE

Move(c, to) == callers' = [callers EXCEPT ![c] = to]

\* _ensure_authenticated: if not self.is_authenticated.
CallerChecksToken ==
    \E c \in Callers :
        /\ callers[c].pc = "idle"
        /\ Move(c, [IdleCaller EXCEPT
                       !.observed = NeedsAuthentication(token_info, now),
                       !.seen = token_info,
                       !.pc = IF NeedsAuthentication(token_info, now)
                              THEN "post" ELSE "request"])
        /\ UNCHANGED <<now, environment, _endpoints, json_error_base,
                       token_info, session_headers, last>>

\* authenticate() up to the TokenInfo it builds, or the exception it raises.
CallerPosts ==
    \E c \in Callers :
        /\ callers[c].pc = "post"
        /\ IF PostsOnEntry(token_info, now)
           THEN \E resp \in ConcurrentOAuthResponses :
                    LET a == AuthenticateOn(
                                 Context(token_info, session_headers,
                                         callers[c].log),
                                 resp,
                                 Append(callers[c].log, OAuthRequest(resp)),
                                 now)
                    IN  Move(c, IF IsRaised(a.out)
                                THEN [callers[c] EXCEPT !.pc = "done",
                                                        !.log = a.ctx.log,
                                                        !.out = a.out]
                                ELSE [callers[c] EXCEPT !.pc = "store",
                                                        !.log = a.ctx.log,
                                                        !.tok = a.out.value])
           ELSE Move(c, [callers[c] EXCEPT !.pc = "request"])
        /\ UNCHANGED <<now, environment, _endpoints, json_error_base,
                       token_info, session_headers, last>>

\* self.token_info = TokenInfo(...)
CallerStoresToken ==
    \E c \in Callers :
        /\ callers[c].pc = "store"
        /\ token_info' = callers[c].tok
        /\ Move(c, [callers[c] EXCEPT !.pc = "format"])
        /\ UNCHANGED <<now, environment, _endpoints, json_error_base,
                       session_headers, last>>

\* f"Bearer {self.token_info.access_token}": reads the token cached by now.
CallerFormatsBearer ==
    \E c \in Callers :
        /\ callers[c].pc = "format"
        /\ Move(c, [callers[c] EXCEPT
                       !.pc = "update",
                       !.bearer = "Bearer " \o Format(token_info.access_token)])
        /\ UNCHANGED <<now, environment, _endpoints, json_error_base,
                       token_info, session_headers, last>>

\* self._session.headers.update({"Authorization": ...})
CallerUpdatesHeader ==
    \E c \in Callers :
        /\ callers[c].pc = "update"
        /\ session_headers' = HeadersUpdate(session_headers, "Authorization",
                                            callers[c].bearer)
        /\ Move(c, [callers[c] EXCEPT !.pc = "request"])
        /\ UNCHANGED <<now, environment, _endpoints, json_error_base,
                       token_info, last>>

\* The rest of _make_request and of get_case_status: the request goes out
\* with the session's headers as they are at that moment.
CallerSendsRequest ==
    \E c \in Callers :
        /\ callers[c].pc = "request"
        /\ \E resp \in ConcurrentResourceResponses :
               LET d == Dispatch(Context(token_info, session_headers,
                                         callers[c].log),
                                 resp, now, "GET",
                                 base_url \o "/case-status/"
                                     \o ConcurrentReceipt,
                                 None)
               IN  Move(c, [callers[c] EXCEPT
                               !.pc = "done",
                               !.log = d.ctx.log,
                               !.out = IF IsRaised(d.out) THEN d.out
                                       ELSE CaseStatusFrom(d.out.value,
                                                           ConcurrentReceipt)])
        /\ UNCHANGED <<now, environment, _endpoints, json_error_base,
                       token_info, session_headers, last>>

\* The thread takes the result and is free for its next call.
CallerReturns ==
    \E c \in Callers :
        /\ callers[c].pc = "done"
        /\ Move(c, IdleCaller)
        /\ UNCHANGED <<now, environment, _endpoints, json_error_base,
                       token_info, session_headers, last>>

\* A second passes, wherever the threads are.
ClockTick ==
    /\ now < MaxTime
    /\ now' = now + 1
    /\ UNCHANGED <<environment, _endpoints, json_error_base, token_info,
                   session_headers, last, callers>>

NextConcurrent ==
    \/ ClockTick
    \/ CallerChecksToken
    \/ CallerPosts
    \/ CallerStoresToken
    \/ CallerFormatsBearer
    \/ CallerUpdatesHeader
    \/ CallerSendsRequest
    \/ CallerReturns

SpecConcurrent == Init /\ [][NextConcurrent]_vars

---------------------------------------------------------------------------
(* Properties.  They read the record of the last call; the threshold of    *)
(* the expiry check is written out here, independently of is_expired.      *)

\* The operations that go through _make_request.
MakeRequestOperations ==
    {"get_case_status", "create_foia_request", "get_foia_status"}

\* The time from which a token counts as expired: expiry minus 60 seconds.
ExpiryThreshold(tok) == tok.issued_at + tok.expires_in - 60

\* A token is cached and its expiry threshold is still ahead.
TokenValid(tok, t) == tok # None /\ t < ExpiryThreshold(tok)

CallReturned(op) == last.op = op /\ ~IsRaised(last.out)

CallRaised(op) == last.op = op /\ IsRaised(last.out)

\* C1: an operation that goes through _make_request sends at most one OAuth
\* request when the cached token is valid at the time of the call, and
\* exactly one when no token is cached or the cached token is expired.
C1_EnsureAuthenticatedCalls ==
    last.op \in MakeRequestOperations =>
        IF TokenValid(last.pre.token_info, last.at)
        THEN Len(OAuthCalls(last.log)) <= 1
        ELSE Len(OAuthCalls(last.log)) = 1

\* A lookup that found an expired token cached, authenticated once and then
\* sent its request.
C1_Witness ==
    /\ last.op = "get_case_status"
    /\ last.pre.token_info # None
    /\ ~TokenValid(last.pre.token_info, last.at)
    /\ Len(OAuthCalls(last.log)) = 1
    /\ Len(ResourceCalls(last.log)) = 1

\* C2: for a token issued at issue_time with lifetime E, is_expired at time t
\* is false for every t < issue_time + E - 60 and true for every
\* t >= issue_time + E - 60.
C2_IsExpiredThreshold ==
    token_info # None =>
        \A t \in (ExpiryThreshold(token_info) - 2)
                    ..(ExpiryThreshold(token_info) + 2) :
            /\ t < ExpiryThreshold(token_info) => ~is_expired(token_info, t)
            /\ t >= ExpiryThreshold(token_info) => is_expired(token_info, t)

\* get_token_info reports a token as expired at the very second of its
\* threshold, one second after the token was issued.
C2_Witness ==
    /\ last.op = "get_token_info"
    /\ token_info # None
    /\ now = ExpiryThreshold(token_info)
    /\ now > token_info.issued_at
    /\ last.out.value.is_expired

\* C3 as stated: whatever lifetime E the OAuth response names, right after
\* authenticate() has returned, with no time elapsed, is_expired is false
\* and is_authenticated is true.
C3_FreshTokenNotExpired ==
    (CallReturned("authenticate") /\ now = last.at) =>
        /\ ~is_expired(token_info, now)
        /\ is_authenticated(token_info, now)

\* C3 amended: the same for every lifetime E > 60.
C3_FreshTokenNotExpiredAbove60 ==
    (CallReturned("authenticate") /\ now = last.at
        /\ token_info.expires_in > 60) =>
        /\ ~is_expired(token_info, now)
        /\ is_authenticated(token_info, now)

\* authenticate() has just returned a token of lifetime 61, at a time other
\* than 0, and the client is authenticated.
C3_Witness ==
    /\ CallReturned("authenticate")
    /\ now = last.at
    /\ now > 0
    /\ token_info.expires_in = 61
    /\ is_authenticated(token_info, now)

\* C4: an authenticate() that returns got HTTP 200, built a token issued at
\* the time of the call from the response's access_token, cached it in place
\* of any earlier token, set the session's Authorization header to "Bearer "
\* followed by that access token and left the other headers alone, and
\* returned the cached token.
C4_AuthenticateSuccess ==
    CallReturned("authenticate") =>
        /\ Len(last.log) = 1
        /\ last.log[1].kind = "oauth"
        /\ last.log[1].response.status_code = 200
        /\ token_info # None
        /\ token_info.issued_at = last.at
        /\ token_info.access_token
               = last.log[1].response.body.parsed.dict.access_token
        /\ DOMAIN session_headers
               = DOMAIN last.pre.session_headers \cup {"Authorization"}
        /\ \A h \in DOMAIN session_headers :
               session_headers[h] =
                   IF h = "Authorization"
                   THEN "Bearer " \o token_info.access_token.str
                   ELSE last.pre.session_headers[h]
        /\ last.out.value = token_info

\* authenticate() replaced a cached token by one with another access token
\* and a token_type other than "Bearer".
C4_Witness ==
    /\ CallReturned("authenticate")
    /\ last.pre.token_info # None
    /\ last.pre.token_info.access_token # token_info.access_token
    /\ token_info.token_type # PyStr("Bearer")
    /\ session_headers["Authorization"] = "Bearer tokB"

\* C5: after an authenticate() that raised, the cached token and the
\* session's headers (the Authorization header among them) are what they
\* were before the call.
C5_FailedAuthenticateKeepsSession ==
    CallRaised("authenticate") =>
        /\ token_info = last.pre.token_info
        /\ session_headers = last.pre.session_headers

\* The OAuth endpoint answered 401 to a client that held a token: the token
\* and its bearer header are still there.
C5_Witness ==
    /\ CallRaised("authenticate")
    /\ last.log[1].response = HttpResponse(401,
           Body("{error: invalid_client}",
                PyDict([error |-> PyStr("invalid_client")])))
    /\ last.pre.token_info # None
    /\ token_info = last.pre.token_info
    /\ "Authorization" \in DOMAIN session_headers

\* The receipt numbers the batch was called with.
BatchReceipts == {last.args.list[i].str : i \in 1..Len(last.args.list)}

\* The receipts of the batch a lookup of which got a 200 answer.
SucceededReceipts ==
    {r \in BatchReceipts :
        \E k \in 1..Len(last.log) :
            /\ last.log[k].kind = "resource"
            /\ last.log[k].url = base_url \o "/case-status/" \o r
            /\ last.log[k].response.status_code = 200}

\* C6: get_case_status_batch never aborts early: for every input sequence
\* it returns, having attempted a lookup for every receipt number, so that
\* every receipt ended as a success or as a recorded failure.
C6_BatchNeverAborts ==
    last.op = "get_case_status_batch" =>
        /\ ~IsRaised(last.out)
        /\ DOMAIN last.out.value.dict \cup DOMAIN last.errors.dict
               = BatchReceipts

\* The failure entries of a value get_case_status_batch returned.
ReturnedErrors(v) ==
    IF "errors" \in DOMAIN v.dict THEN DOMAIN v.dict["errors"].dict ELSE {}

OAuthSucceeds(resp) == resp \in {HttpResponse(200, b) : b \in OAuthGoodBodies}

\* C8: a test_connection() whose OAuth call fails returns results with
\* authentication.success false, carrying the error and its code, and sends
\* no case-status request.
C8_TestConnectionShortCircuit ==
    (last.op = "test_connection" /\ ~OAuthSucceeds(last.log[1].response)) =>
        /\ ~IsRaised(last.out)
        /\ last.out.value.authentication.success = FALSE
        /\ {"error", "code"} \subseteq DOMAIN last.out.value.authentication
        /\ Len(ResourceCalls(last.log)) = 0
        /\ Len(last.log) = 1

\* C9: test_connection() always sends an OAuth request first, also when a
\* valid token is cached; when that authentication succeeds the cached token
\* is one issued during the call; a resource request is sent only in SANDBOX,
\* and then it is the lookup of the first sandbox test receipt.
C9_TestConnectionReauthenticates ==
    last.op = "test_connection" =>
        /\ Len(last.log) >= 1
        /\ last.log[1].kind = "oauth"
        /\ OAuthSucceeds(last.log[1].response) =>
               /\ token_info # None
               /\ token_info.issued_at = last.at
               /\ \E k \in 1..Len(last.log) :
                      /\ last.log[k].kind = "oauth"
                      /\ OAuthSucceeds(last.log[k].response)
                      /\ token_info.access_token =
                             last.log[k].response.body.parsed.dict.access_token
        /\ \A k \in 1..Len(last.log) :
               last.log[k].kind = "resource" =>
                   /\ environment = "SANDBOX"
                   /\ last.log[k].method = "GET"
                   /\ last.log[k].url =
                          base_url \o "/case-status/" \o SANDBOX_TEST_RECEIPTS[1]
        /\ (CallReturned("test_connection") /\ environment # "SANDBOX") =>
               last.out.value.case_status_api = [success |-> FALSE]
        /\ (CallReturned("test_connection") /\ environment = "SANDBOX"
               /\ OAuthSucceeds(last.log[1].response)) =>
               last.out.value.case_status_api.test_receipt
                   = SANDBOX_TEST_RECEIPTS[1]

\* A SANDBOX client that held a valid token ran test_connection(): it
\* authenticated anew, holds another token now, and its sub-test succeeded.
C9_Witness ==
    /\ CallReturned("test_connection")
    /\ environment = "SANDBOX"
    /\ TokenValid(last.pre.token_info, last.at)
    /\ token_info # last.pre.token_info
    /\ last.out.value.authentication.success
    /\ last.out.value.case_status_api.success

\* Whether an answer's body decodes to an object with a non-empty errors array.
HasErrors(resp) ==
    /\ ~IsTransportFailure(resp)
    /\ resp.body.parsed # Invalid
    /\ IsDict(resp.body.parsed)
    /\ "errors" \in DOMAIN resp.body.parsed.dict
    /\ IsList(resp.body.parsed.dict["errors"])
    /\ Len(resp.body.parsed.dict["errors"].list) > 0

FirstError(resp) == resp.body.parsed.dict["errors"].list[1]

\* C10: when a resource endpoint answers with status >= 400 and a body whose
\* errors array is non-empty, the operation raises USCISApiError with the
\* response's status and with the message, code and traceId of the first
\* entry of the array, each when the entry has it (no trace id otherwise).
C10_StructuredError ==
    \A k \in 1..Len(last.log) :
        (/\ last.op \in MakeRequestOperations
         /\ last.log[k].kind = "resource"
         /\ HasErrors(last.log[k].response)
         /\ last.log[k].response.status_code >= 400) =>
            /\ IsRaised(last.out)
            /\ IsApiError(last.out.exc)
            /\ last.out.exc.status = PyInt(last.log[k].response.status_code)
            /\ "message" \in DOMAIN FirstError(last.log[k].response).dict =>
                   PyStr(last.out.exc.message)
                       = FirstError(last.log[k].response).dict["message"]
            /\ "code" \in DOMAIN FirstError(last.log[k].response).dict =>
                   last.out.exc.code
                       = FirstError(last.log[k].response).dict["code"]
            /\ last.out.exc.trace_id =
                   IF "traceId" \in DOMAIN FirstError(last.log[k].response).dict
                   THEN FirstError(last.log[k].response).dict["traceId"]
                   ELSE None

\* get_case_status raised the error of a 400 answer whose first error is
\* {message: "Invalid receipt", code: "BAD_INPUT"}.
C10_Witness ==
    /\ CallRaised("get_case_status")
    /\ IsApiError(last.out.exc)
    /\ last.out.exc.status = PyInt(400)
    /\ last.out.exc.code = PyStr("BAD_INPUT")
    /\ last.out.exc.message = "Invalid receipt"

\* Whether text sub occurs in text s, and whether s begins with it.
Contains(s, sub) ==
    \E i \in 1..(Len(s) - Len(sub) + 1) : SubSeq(s, i, i + Len(sub) - 1) = sub

StartsWith(s, head) ==
    Len(s) >= Len(head) /\ SubSeq(s, 1, Len(head)) = head

\* An answer with an error status and no non-empty errors array in its body.
UnstructuredError(resp) ==
    /\ ~IsTransportFailure(resp)
    /\ resp.status_code >= 400
    /\ ~HasErrors(resp)

\* The message C11 describes for status, the request's url and an exception's
\* message m: the text chosen by status, with an excerpt of at most 200
\* characters where it holds one.
MessageByStatus(status, url, m) ==
    IF status = 503
    THEN /\ Contains(m, "503")
         /\ Contains(m, url)
         /\ \E i \in 1..Len(m) :
                /\ SubSeq(m, 1, i) = "USCIS API unavailable (503). URL: "
                                         \o url \o ". Response: "
                /\ Len(m) - i <= 200
    ELSE IF status = 401 THEN Contains(m, "Authentication failed")
    ELSE IF status = 404
    THEN Contains(m, "Endpoint not found") /\ Contains(m, url)
    ELSE /\ StartsWith(m, "API error " \o ToString(status))
         /\ Len(m) - Len("API error " \o ToString(status) \o ": ") <= 200

\* C11: when a resource endpoint answers with status >= 400 and no
\* structured error body, the operation raises USCISApiError with the
\* response's status, the code "HTTP_{status}" and the message chosen by
\* status, any body excerpt in it being at most 200 characters long.
C11_UnstructuredErrorDefaults ==
    \A k \in 1..Len(last.log) :
        (/\ last.op \in MakeRequestOperations
         /\ last.log[k].kind = "resource"
         /\ UnstructuredError(last.log[k].response)) =>
            /\ IsRaised(last.out)
            /\ IsApiError(last.out.exc)
            /\ last.out.exc.status = PyInt(last.log[k].response.status_code)
            /\ last.out.exc.code =
                   PyStr("HTTP_" \o ToString(last.log[k].response.status_code))
            /\ MessageByStatus(last.log[k].response.status_code,
                               last.log[k].url, last.out.exc.message)

\* The 'error' field of an OAuth answer's body, "AUTH_ERROR" when the body
\* has none (empty, not JSON, or JSON without the field).
OAuthErrorCode(resp) ==
    IF resp.body.parsed # Invalid /\ IsDict(resp.body.parsed)
    THEN DictGet(resp.body.parsed, "error", PyStr("AUTH_ERROR"))
    ELSE PyStr("AUTH_ERROR")

\* C12: when the OAuth endpoint answers with a status other than 200,
\* authenticate() raises USCISApiError whose status is the response's code
\* and whose code is the body's 'error' field or "AUTH_ERROR", whatever the
\* shape of the body.
C12_OAuthErrorMapping ==
    (/\ last.op = "authenticate"
     /\ ~IsTransportFailure(last.log[1].response)
     /\ last.log[1].response.status_code # 200) =>
        /\ IsRaised(last.out)
        /\ IsApiError(last.out.exc)
        /\ last.out.exc.status = PyInt(last.log[1].response.status_code)
        /\ last.out.exc.code = OAuthErrorCode(last.log[1].response)

\* The operations that raise to their caller: authenticate() and the three
\* that go through _make_request.
RaisingOperations == {"authenticate"} \cup MakeRequestOperations

\* C13: when a request gets no response at all (transport failure), on the
\* OAuth request as on a resource request, the operation raises
\* USCISApiError with status None and no code, its message wrapping the
\* transport exception's text.
C13_TransportFailure ==
    \A k \in 1..Len(last.log) :
        (/\ last.op \in RaisingOperations
         /\ IsTransportFailure(last.log[k].response)) =>
            /\ IsRaised(last.out)
            /\ IsApiError(last.out.exc)
            /\ last.out.exc.status = None
            /\ last.out.exc.code = None
            /\ last.out.exc.message =
                   (IF last.log[k].kind = "oauth"
                    THEN "Network error during authentication: "
                    ELSE "Network error: ") \o last.log[k].response.failure

\* A lookup authenticated, then its resource request met a transport
\* failure and the lookup raised the error without status.
C13_Witness ==
    /\ CallRaised("get_case_status")
    /\ Len(last.log) = 2
    /\ last.log[2].kind = "resource"
    /\ IsTransportFailure(last.log[2].response)
    /\ last.out.exc.status = None
    /\ last.out.exc.message = "Network error: Connection refused"

\* C14: when a resource endpoint answers with a status below 400 and a body
\* that is not JSON, the operation raises USCISApiError: it returns no
\* result and raises no exception of another type.
C14_MalformedSuccessBody ==
    \A k \in 1..Len(last.log) :
        (/\ last.op \in MakeRequestOperations
         /\ last.log[k].kind = "resource"
         /\ ~IsTransportFailure(last.log[k].response)
         /\ last.log[k].response.status_code < 400
         /\ last.log[k].response.body.parsed = Invalid) =>
            /\ IsRaised(last.out)
            /\ IsApiError(last.out.exc)

\* The answer to the resource request of the recorded call, when it sent one.
SentResource == Len(ResourceCalls(last.log)) = 1

ResourceAnswer == last.log[Len(last.log)].response

\* C15: when the case-status endpoint answers 2xx with valid JSON that has
\* no nested 'case_status' object, get_case_status raises instead of
\* returning a CaseStatus filled with defaults.
C15_MissingCaseStatusRaises ==
    (/\ last.op = "get_case_status"
     /\ SentResource
     /\ ~IsTransportFailure(ResourceAnswer)
     /\ ResourceAnswer.status_code < 400
     /\ ResourceAnswer.body.parsed # Invalid
     /\ IsDict(ResourceAnswer.body.parsed)
     /\ "case_status" \notin DOMAIN ResourceAnswer.body.parsed.dict) =>
        IsRaised(last.out)

\* The lookup failed: lazy authentication failed (no resource request went
\* out), the resource request met a transport failure, or its answer had a
\* status of 400 or more.
LookupFailed ==
    \/ ~SentResource
    \/ IsTransportFailure(ResourceAnswer)
    \/ ResourceAnswer.status_code >= 400

\* The answer is a 200 whose body holds a case_status object with formType.
WellFormedCaseAnswer(resp) ==
    /\ ~IsTransportFailure(resp)
    /\ resp.status_code = 200
    /\ resp.body.parsed # Invalid
    /\ IsDict(resp.body.parsed)
    /\ "case_status" \in DOMAIN resp.body.parsed.dict
    /\ IsDict(resp.body.parsed.dict.case_status)
    /\ "formType" \in DOMAIN resp.body.parsed.dict.case_status.dict

\* A returned CaseStatus comes from a 2xx answer.
C16_OnlyFromSuccess ==
    CallReturned("get_case_status") =>
        /\ SentResource
        /\ ~IsTransportFailure(ResourceAnswer)
        /\ ResourceAnswer.status_code \in 200..299

\* A failed lookup raises the typed error.
C16_FailureRaisesTyped ==
    (last.op = "get_case_status" /\ LookupFailed) =>
        /\ IsRaised(last.out)
        /\ IsApiError(last.out.exc)

\* A well-formed 200 gives the requested or echoed receipt number and the
\* body's formType.
C16_WellFormedFields ==
    (last.op = "get_case_status" /\ SentResource
        /\ WellFormedCaseAnswer(ResourceAnswer)) =>
        /\ ~IsRaised(last.out)
        /\ last.out.value.receipt_number =
               DictGet(ResourceAnswer.body.parsed.dict.case_status,
                       "receiptNumber", last.args)
        /\ last.out.value.form_type =
               ResourceAnswer.body.parsed.dict.case_status.dict.formType

\* C16: get_case_status returns a CaseStatus only from a successful (2xx)
\* response; when the lookup fails (status >= 400, transport failure or
\* failed lazy authentication) it returns none and raises USCISApiError; on
\* a 200 with a well-formed case_status body the result's receipt_number is
\* the requested or echoed one and its form_type is the body's formType.
C16_CaseStatusOnlyFromSuccess ==
    /\ C16_OnlyFromSuccess
    /\ C16_FailureRaisesTyped
    /\ C16_WellFormedFields

\* C17: authenticate, get_case_status, create_foia_request and
\* get_foia_status each end by returning one result or by raising one
\* USCISApiError, whatever the server answers: no exception of another type
\* escapes.
C17_OnlyApiErrorEscapes ==
    (last.op \in RaisingOperations /\ IsRaised(last.out)) =>
        IsApiError(last.out.exc)

\* The lifetime of the token an OAuth answer carries.
IssuedLifetime(resp) ==
    PyIntOf(DictGet(resp.body.parsed, "expires_in", PyInt(DefaultExpiresIn))).value

\* C18: each of get_case_status, create_foia_request, get_foia_status and
\* test_connection issues at most one HTTP call, OAuth and resource requests
\* counted together, whatever the state of the token cache.
C18_AtMostOneHttpCall ==
    last.op \in MakeRequestOperations \cup {"test_connection"} =>
        Len(last.log) <= 1

\* C18 amended: get_case_status, create_foia_request and get_foia_status
\* send at most one resource request, preceded by no OAuth request when the
\* cached token is valid and by exactly one when it is absent or expired;
\* test_connection sends one OAuth request first, then, only in SANDBOX and
\* after that authentication succeeded, at most one resource request,
\* preceded by a second OAuth request exactly when the token just issued has
\* a lifetime of at most 60 seconds.
C18_HttpCallsPerOperation ==
    /\ last.op \in MakeRequestOperations =>
           /\ Len(OAuthCalls(last.log)) =
                  (IF TokenValid(last.pre.token_info, last.at) THEN 0 ELSE 1)
           /\ Len(ResourceCalls(last.log)) <= 1
           /\ \A k \in 1..Len(last.log) :
                  last.log[k].kind = "oauth" => k = 1
    /\ last.op = "test_connection" =>
           /\ Len(last.log) \in 1..3
           /\ last.log[1].kind = "oauth"
           /\ Len(ResourceCalls(last.log)) <= 1
           /\ \A k \in 1..Len(last.log) :
                  last.log[k].kind = "resource" => k = Len(last.log)
           /\ Len(last.log) > 1 =>
                  /\ environment = "SANDBOX"
                  /\ OAuthSucceeds(last.log[1].response)
                  /\ last.log[2].kind = "oauth"
                         <=> IssuedLifetime(last.log[1].response) <= ExpiryBuffer

\* A SANDBOX test_connection() sent three HTTP requests: two to the OAuth
\* endpoint, then one to the case-status endpoint.
C18_Witness ==
    /\ last.op = "test_connection"
    /\ Len(last.log) = 3
    /\ Len(OAuthCalls(last.log)) = 2
    /\ last.log[3].kind = "resource"

\* A logged request that failed: no response, an OAuth answer that yields
\* no token, or a resource answer with status >= 400 or an undecodable body.
FailedRequest(entry) ==
    \/ IsTransportFailure(entry.response)
    \/ entry.kind = "oauth" /\ ~OAuthSucceeds(entry.response)
    \/ entry.kind = "resource"
           /\ (\/ entry.response.status_code >= 400
               \/ entry.response.body.parsed = Invalid)

\* Nothing is sent after a failed request.
FailureEndsCall == \A k \in 1..Len(last.log) :
    FailedRequest(last.log[k]) => k = Len(last.log)

FailedOAuthCalls == SelectSeq(last.log, LAMBDA r :
    r.kind = "oauth" /\ FailedRequest(r))

DocumentedUrls(env) ==
    IF env = "SANDBOX"
    THEN <<"https://api-int.uscis.gov",
           "https://api-int.uscis.gov/oauth/accesstoken">>
    ELSE <<"https://api.uscis.gov", "https://api.uscis.gov/oauth/accesstoken">>

\* The client's URLs, and the URLs of the requests of the recorded call, are
\* those of its environment.
UrlsOfEnvironment ==
    /\ <<base_url, oauth_url>> = DocumentedUrls(environment)
    /\ \A k \in 1..Len(last.log) :
           IF last.log[k].kind = "oauth"
           THEN last.log[k].url = DocumentedUrls(environment)[2]
           ELSE StartsWith(last.log[k].url,
                           DocumentedUrls(environment)[1] \o "/")
    /\ DocumentedUrls("SANDBOX")[1] # DocumentedUrls("PRODUCTION")[1]
    /\ DocumentedUrls("SANDBOX")[2] # DocumentedUrls("PRODUCTION")[2]

StatedLifetime(data) ==
    IF "expires_in" \notin DOMAIN data.dict THEN 1799
    ELSE IF IsInt(data.dict.expires_in) THEN data.dict.expires_in.int
    ELSE IF IsStr(data.dict.expires_in) /\ PyIntOf(data.dict.expires_in).ok
    THEN PyIntOf(data.dict.expires_in).value
    ELSE 1799

\* The OAuth endpoint answered 200 with a JSON object holding an
\* access_token.
TokenGranted(resp) ==
    /\ ~IsTransportFailure(resp)
    /\ resp.status_code = 200
    /\ resp.body.parsed # Invalid
    /\ IsDict(resp.body.parsed)
    /\ "access_token" \in DOMAIN resp.body.parsed.dict

\* C21: on a 200 OAuth answer the new token's lifetime is the integer value
\* of expires_in when it is numeric and 1799 when it is absent or not
\* numeric, its token_type is "Bearer" when the answer names none, and its
\* api_products is always a list, a single string becoming a list of one.
C21_TokenDefaults ==
    (last.op = "authenticate" /\ TokenGranted(last.log[1].response)) =>
        /\ ~IsRaised(last.out)
        /\ token_info.expires_in
               = StatedLifetime(last.log[1].response.body.parsed)
        /\ token_info.token_type =
               (IF "token_type" \in DOMAIN last.log[1].response.body.parsed.dict
                THEN last.log[1].response.body.parsed.dict.token_type
                ELSE PyStr("Bearer"))
        /\ IsList(token_info.api_products)
        /\ token_info.api_products =
               (IF "api_product_list_json"
                       \notin DOMAIN last.log[1].response.body.parsed.dict
                THEN PyList(<<>>)
                ELSE IF IsStr(last.log[1].response.body.parsed.dict.api_product_list_json)
                THEN PyList(<<last.log[1].response.body.parsed.dict.api_product_list_json>>)
                ELSE last.log[1].response.body.parsed.dict.api_product_list_json)

DiagnosticOperations == {"get_token_info", "get_debug_info"}

\* What get_token_info() has returned, for the cached token and the time.
TokenProjection ==
    last.op = "get_token_info" =>
        /\ ~IsRaised(last.out)
        /\ IF token_info = None
           THEN last.out.value = [authenticated |-> FALSE]
           ELSE /\ last.out.value.authenticated
                /\ last.out.value.seconds_remaining >= 0
                /\ last.out.value.seconds_remaining =
                       (IF now < token_info.issued_at + token_info.expires_in
                        THEN token_info.issued_at + token_info.expires_in - now
                        ELSE 0)

\* A step that runs get_token_info() or get_debug_info() sends no request
\* and changes nothing of the client.
DiagnosticFrame ==
    (last.op = "none" /\ last'.op \in DiagnosticOperations) =>
        /\ last'.log = <<>>
        /\ ~IsRaised(last'.out)
        /\ token_info' = token_info
        /\ session_headers' = session_headers
        /\ environment' = environment
        /\ _endpoints' = _endpoints

\* C22: get_token_info() and get_debug_info() issue no network call and
\* leave the cached token, the session headers and the environment
\* unchanged in every client state; get_token_info() returns
\* {authenticated: false} when no token is cached and otherwise a projection
\* whose seconds_remaining is never negative, being zero once the token's
\* expiry time has passed.
C22_DiagnosticsArePure ==
    /\ []TokenProjection
    /\ [][DiagnosticFrame]_vars

\* get_token_info() ran on a token whose expiry time has passed and reported
\* zero seconds remaining.
C22_Witness ==
    /\ last.op = "get_token_info"
    /\ token_info # None
    /\ now > token_info.issued_at + token_info.expires_in
    /\ last.out.value.seconds_remaining = 0
    /\ last.out.value.is_expired
    /\ "Authorization" \in DOMAIN session_headers

\* The call authenticated lazily: its first request went to the OAuth
\* endpoint.
LazyAuthentication ==
    /\ last.op \in MakeRequestOperations
    /\ Len(last.log) > 0
    /\ last.log[1].kind = "oauth"

\* The resource request follows a completed authentication: it comes after
\* the OAuth request, whose answer yielded a token, and carries the bearer
\* header of that token.
C23_RequestAfterAuthentication ==
    (LazyAuthentication /\ Len(ResourceCalls(last.log)) > 0) =>
        /\ Len(last.log) = 2
        /\ last.log[2].kind = "resource"
        /\ OAuthSucceeds(last.log[1].response)
        /\ last.log[2].authorization =
               PyStr("Bearer "
                   \o last.log[1].response.body.parsed.dict.access_token.str)

\* A failed lazy authentication sends no resource request and raises.
C23_FailedAuthenticationSendsNothing ==
    (LazyAuthentication /\ ~OAuthSucceeds(last.log[1].response)) =>
        /\ Len(last.log) = 1
        /\ IsRaised(last.out)
        /\ token_info = last.pre.token_info

\* C23: in single-threaded use the lazy authenticate() of an operation runs
\* to completion before the resource request is issued, and when it fails
\* the operation raises that USCISApiError and sends no resource request.
C23_AuthenticateCompletesFirst ==
    /\ C23_RequestAfterAuthentication
    /\ C23_FailedAuthenticationSendsNothing
    /\ (LazyAuthentication /\ ~OAuthSucceeds(last.log[1].response)) =>
           IsApiError(last.out.exc)

\* The thread is past the OAuth request of its call.
PastPost(c) == callers[c].pc \in {"store", "format", "update", "request", "done"}

\* Every thread that found the token absent or expired has sent an OAuth
\* request of its own, whatever the other thread did meanwhile.
EachObserverAuthenticates ==
    \A c \in Callers :
        (callers[c].observed /\ PastPost(c)) =>
            Len(OAuthCalls(callers[c].log)) = 1

\* A thread that stores its token replaces whatever is cached, and a thread
\* that updates the header replaces whatever the header holds.
OverwritesUnguarded ==
    \A c \in Callers :
        /\ (callers[c].pc = "store" /\ callers'[c].pc = "format") =>
               token_info' = callers[c].tok
        /\ (callers[c].pc = "update" /\ callers'[c].pc = "request") =>
               session_headers'["Authorization"] = callers[c].bearer

\* C24: nothing excludes two callers of one client from each other: when
\* both find the token absent or expired both authenticate, each with an
\* OAuth request of its own, and each overwrites the cached token and the
\* bearer header with its own, so that the session's Authorization header
\* can end up naming another token than the cached one.
C24_NoMutualExclusion ==
    /\ []EachObserverAuthenticates
    /\ [][OverwritesUnguarded]_vars

\* Both threads found the same token state wanting, both got a token from
\* the OAuth endpoint and finished their calls, and the header now names a
\* token other than the cached one.
C24_Witness ==
    /\ \A c \in Callers :
           /\ callers[c].pc = "done"
           /\ callers[c].observed
           /\ Len(OAuthCalls(callers[c].log)) = 1
           /\ OAuthSucceeds(callers[c].log[1].response)
    /\ callers["caller1"].seen = callers["caller2"].seen
    /\ callers["caller1"].tok # callers["caller2"].tok
    /\ token_info # None
    /\ session_headers["Authorization"]
           # "Bearer " \o token_info.access_token.str

\* The Authorization header is absent when no token is cached and names the
\* cached token otherwise.
HeaderNamesCachedToken ==
    IF token_info = None
    THEN "Authorization" \notin DOMAIN session_headers
    ELSE /\ "Authorization" \in DOMAIN session_headers
         /\ session_headers["Authorization"]
                = "Bearer " \o token_info.access_token.str

\* The access token cached when the k-th request of the recorded call went
\* out: that of the latest OAuth answer before it that yielded a token, or
\* the one cached before the call.
RECURSIVE CachedWhenSent(_)
CachedWhenSent(k) ==
    IF k = 1 THEN last.pre.token_info
    ELSE IF last.log[k - 1].kind = "oauth"
            /\ OAuthSucceeds(last.log[k - 1].response)
    THEN [access_token |->
              last.log[k - 1].response.body.parsed.dict.access_token]
    ELSE CachedWhenSent(k - 1)

\* C25: in single-threaded use, after any sequence of operations the
\* session's Authorization header is absent exactly when no token is cached
\* and is otherwise "Bearer " followed by the cached token's access token;
\* every resource request that is sent carries the bearer value of the
\* token cached at that moment.
C25_HeaderMatchesToken ==
    /\ HeaderNamesCachedToken
    /\ \A k \in 1..Len(last.log) :
           last.log[k].kind = "resource" =>
               /\ CachedWhenSent(k) # None
               /\ last.log[k].authorization =
                      PyStr("Bearer " \o CachedWhenSent(k).access_token.str)

\* A lookup found the token tokA expired, authenticated again, was given
\* tokB and sent its request with "Bearer tokB", which the header still is.
C25_Witness ==
    /\ last.op = "get_case_status"
    /\ last.pre.token_info # None
    /\ last.pre.token_info.access_token = PyStr("tokA")
    /\ Len(last.log) = 2
    /\ last.log[2].kind = "resource"
    /\ last.log[2].authorization = PyStr("Bearer tokB")
    /\ token_info.access_token = PyStr("tokB")
    /\ session_headers["Authorization"] = "Bearer tokB"

====
